---- MODULE Spec2Model ----
(***************************************************************************)
(* Retry admission token bucket of aws-smithy-runtime                      *)
(* (client/retries/token_bucket.rs): a tokio Semaphore holding the         *)
(* available tokens, an f64 accumulator of fractional success rewards      *)
(* behind a Mutex, and the three operations acquire, regenerate_a_token    *)
(* and reward_success, run by concurrent callers on one shared bucket;     *)
(* the TokenBucketBuilder; and one request passing                         *)
(* AwsChunkedContentEncodingInterceptor (aws-inlineable/aws_chunked.rs),   *)
(* which installs a chunked body whose trailer waits for a signer handed   *)
(* over by a later stage: the slot of that handoff and the drain of the    *)
(* chunked body follow the design's description of them.                   *)
(***************************************************************************)
EXTENDS Integers, Sequences, FiniteSets, Bags, TLC

(***************************************************************************)
(* f64 arithmetic.  A finite f64 is kept as sign and magnitude, the        *)
(* magnitude counted in units of 2^-54 and split in two limbs,             *)
(* magnitude = hi * 2^28 + lo, so that every intermediate result fits      *)
(* TLC's 32 bit integers.  Every f64 of magnitude in [2^-2, 16) and every  *)
(* difference of two such values is a whole number of units.  Results are  *)
(* rounded to 53 significant bits, ties to even, as IEEE 754 does.         *)
(***************************************************************************)
Limb == 2^28

UnitsPerOneHi == 2^26

F64(neg, hi, lo) == [neg |-> neg, hi |-> hi, lo |-> lo]

F64Zero == F64(FALSE, 0, 0)

RECURSIVE BitLen(_)
BitLen(n) == IF n = 0 THEN 0 ELSE 1 + BitLen(n \div 2)

\* The magnitude hi * 2^28 + lo rounded to 53 significant bits, ties to even.
Round53(neg, hi, lo) ==
    LET len == IF hi = 0 THEN 0 ELSE 28 + BitLen(hi)
        s == len - 53
    IN  IF s <= 0
        THEN F64(neg /\ (hi # 0 \/ lo # 0), hi, lo)
        ELSE LET ulp == 2^s
                 q == lo \div ulp
                 r == lo % ulp
                 up == r * 2 > ulp \/ (r * 2 = ulp /\ q % 2 = 1)
                 lo2 == (IF up THEN q + 1 ELSE q) * ulp
             IN  IF lo2 = Limb THEN F64(neg, hi + 1, 0) ELSE F64(neg, hi, lo2)

MagLess(a, b) == a.hi < b.hi \/ (a.hi = b.hi /\ a.lo < b.lo)

\* |a| + |b|, exact (not rounded)
MagAdd(a, b) ==
    LET lo == a.lo + b.lo
    IN  [hi |-> a.hi + b.hi + (lo \div Limb), lo |-> lo % Limb]

\* |a| - |b| for |a| >= |b|, exact
MagSub(a, b) ==
    IF a.lo >= b.lo
    THEN [hi |-> a.hi - b.hi, lo |-> a.lo - b.lo]
    ELSE [hi |-> a.hi - b.hi - 1, lo |-> a.lo + Limb - b.lo]

\* a + b in f64
F64Add(a, b) ==
    IF a.neg = b.neg
    THEN LET m == MagAdd(a, b) IN Round53(a.neg, m.hi, m.lo)
    ELSE IF MagLess(a, b)
         THEN LET m == MagSub(b, a) IN Round53(b.neg, m.hi, m.lo)
         ELSE LET m == MagSub(a, b) IN Round53(a.neg, m.hi, m.lo)

F64Neg(a) == F64(~a.neg /\ (a.hi # 0 \/ a.lo # 0), a.hi, a.lo)

\* a - b in f64
F64Sub(a, b) == F64Add(a, F64Neg(b))

\* a > 0.0
F64Positive(a) == ~a.neg /\ (a.hi # 0 \/ a.lo # 0)

\* f64::floor, as the integer it denotes
F64Floor(a) ==
    IF ~a.neg
    THEN a.hi \div UnitsPerOneHi
    ELSE -((a.hi \div UnitsPerOneHi)
           + (IF a.hi % UnitsPerOneHi # 0 \/ a.lo # 0 THEN 1 ELSE 0))

\* the f64 of a small whole number n >= 0
F64FromInt(n) == F64(FALSE, n * UnitsPerOneHi, 0)


(***************************************************************************)
(* Constants of token_bucket.rs and of tokio's Semaphore.                  *)
(***************************************************************************)
DEFAULT_CAPACITY == 500

DEFAULT_RETRY_COST == 5

DEFAULT_RETRY_TIMEOUT_COST == DEFAULT_RETRY_COST * 2

PERMIT_REGENERATION_AMOUNT == 1

DEFAULT_SUCCESS_REWARD == F64Zero

\* tokio's Semaphore::MAX_PERMITS is usize::MAX >> 3; the model keeps it in
\* TLC's integer range.  The code only compares it and subtracts it from
\* itself (unlimited() charges 0 and rewards 0.0).
MAX_PERMITS == 2^30 - 1

\* aws_smithy_types::retry::ErrorKind
ErrorKind == {"TransientError", "ThrottlingError", "ServerError", "ClientError"}

(***************************************************************************)
(* Bounds of the model.                                                    *)
(***************************************************************************)
\* concurrent callers of the shared bucket
NumThreads == 2

\* permits held by callers at one time
MaxHeld == 2

\* reward_success calls of one run with concurrent callers
MaxRewards == 2

\* reward_success calls of one run of a single caller
MaxSeqRewards == 10

\* how far above max_permits a release build (wrapping subtraction) is followed
MaxOverfill == 2

Threads == 1 .. NumThreads

Min(a, b) == IF a <= b THEN a ELSE b

\* Option<T>: None is <<>>, Some(v) is <<v>>
None == <<>>

Some(v) == <<v>>

UnwrapOr(o, d) == IF o = None THEN d ELSE o[1]

(***************************************************************************)
(* f64 literals of the model's configurations (rustc rounds a decimal      *)
(* literal to the nearest f64).                                            *)
(***************************************************************************)
\* 0.4 = 0x3FD999999999999A
F64_0_4 == F64(FALSE, 26843545, 161061274)

\* 0.5 = 0x3FE0000000000000
F64_0_5 == F64(FALSE, 33554432, 0)

\* 0.9 = 0x3FECCCCCCCCCCCCD
F64_0_9 == F64(FALSE, 60397977, 161061274)

\* 1.5 = 0x3FF8000000000000
F64_1_5 == F64(FALSE, 100663296, 0)

\* 2.0 = 0x4000000000000000
F64_2_0 == F64(FALSE, 134217728, 0)

(***************************************************************************)
(* Constructors.  A bucket is the record of the struct's fields; semaphore *)
(* is the number of permits available in the tokio Semaphore.              *)
(***************************************************************************)
TokenBucketDefault ==
    [semaphore |-> DEFAULT_CAPACITY,
     max_permits |-> DEFAULT_CAPACITY,
     timeout_retry_cost |-> DEFAULT_RETRY_TIMEOUT_COST,
     retry_cost |-> DEFAULT_RETRY_COST,
     success_reward |-> DEFAULT_SUCCESS_REWARD,
     fractional_tokens |-> F64Zero]

TokenBucketNew(initial_quota) ==
    [TokenBucketDefault EXCEPT !.semaphore = initial_quota,
                               !.max_permits = initial_quota]

\* unlimited() as it would be had it given successes a reward
TokenBucketUnlimitedRewarding ==
    [semaphore |-> MAX_PERMITS,
     max_permits |-> MAX_PERMITS,
     timeout_retry_cost |-> 0,
     retry_cost |-> 0,
     success_reward |-> F64_0_5,
     fractional_tokens |-> F64Zero]

\* unlimited() as it would be had it kept the default costs
TokenBucketUnlimitedCharging ==
    [TokenBucketDefault EXCEPT !.semaphore = MAX_PERMITS,
                               !.max_permits = MAX_PERMITS]

TokenBucketUnlimited ==
    [semaphore |-> MAX_PERMITS,
     max_permits |-> MAX_PERMITS,
     timeout_retry_cost |-> 0,
     retry_cost |-> 0,
     success_reward |-> F64Zero,
     fractional_tokens |-> F64Zero]

\* TokenBucketBuilder::default(): nothing set
TokenBucketBuilderDefault ==
    [capacity |-> None, retry_cost |-> None,
     timeout_retry_cost |-> None, success_reward |-> None]

\* build as it would be if the timeout retry cost were read from the retry
\* cost's Option
TokenBucketBuilderBuildCopied(b) ==
    [semaphore |-> UnwrapOr(b.capacity, DEFAULT_CAPACITY),
     max_permits |-> UnwrapOr(b.capacity, DEFAULT_CAPACITY),
     retry_cost |-> UnwrapOr(b.retry_cost, DEFAULT_RETRY_COST),
     timeout_retry_cost |-> UnwrapOr(b.retry_cost, DEFAULT_RETRY_TIMEOUT_COST),
     success_reward |-> UnwrapOr(b.success_reward, DEFAULT_SUCCESS_REWARD),
     fractional_tokens |-> F64Zero]

TokenBucketBuilderBuild(b) ==
    [semaphore |-> UnwrapOr(b.capacity, DEFAULT_CAPACITY),
     max_permits |-> UnwrapOr(b.capacity, DEFAULT_CAPACITY),
     retry_cost |-> UnwrapOr(b.retry_cost, DEFAULT_RETRY_COST),
     timeout_retry_cost |-> UnwrapOr(b.timeout_retry_cost, DEFAULT_RETRY_TIMEOUT_COST),
     success_reward |-> UnwrapOr(b.success_reward, DEFAULT_SUCCESS_REWARD),
     fractional_tokens |-> F64Zero]

\* TokenBucketBuilder's setters
BuilderCapacity(b, capacity) == [b EXCEPT !.capacity = Some(capacity)]

BuilderRetryCost(b, retry_cost_) == [b EXCEPT !.retry_cost = Some(retry_cost_)]

BuilderTimeoutRetryCost(b, cost) == [b EXCEPT !.timeout_retry_cost = Some(cost)]

BuilderSuccessReward(b, reward) == [b EXCEPT !.success_reward = Some(reward)]

\* The builders the model builds buckets from: the ones of the unit tests
\* (capacity 10 with reward 0.4, capacity 10 with reward 2.0), the untouched
\* builder, and small buckets with their own costs.
SmallBuilder(reward) ==
    BuilderSuccessReward(
        BuilderTimeoutRetryCost(
            BuilderRetryCost(BuilderCapacity(TokenBucketBuilderDefault, 3), 1), 2),
        reward)

Builders ==
    {TokenBucketBuilderDefault}
    \cup {BuilderSuccessReward(BuilderCapacity(TokenBucketBuilderDefault, 10), r) :
            r \in {F64_0_4, F64_0_9, F64_2_0}}
    \cup {SmallBuilder(r) : r \in {F64_0_5, F64_1_5}}

\* initial_quota of TokenBucket::new
Quotas == {10, 12}

\* the buckets a single caller is followed on
Buckets ==
    {TokenBucketNew(q) : q \in Quotas}
    \cup {TokenBucketUnlimited}
    \cup {TokenBucketBuilderBuild(b) : b \in Builders}

\* the buckets concurrent callers are followed on
SharedBuckets ==
    {TokenBucketNew(10), TokenBucketUnlimited,
     TokenBucketBuilderBuild(SmallBuilder(F64_0_5))}

(***************************************************************************)
(* State.  The six fields of TokenBucket (semaphore is the Arc<Semaphore>'s *)
(* available permits, fractional_tokens the f64 behind the Arc<Mutex>), the *)
(* OwnedSemaphorePermits callers hold, and each caller's position and      *)
(* locals inside reward_success / regenerate_a_token / add_tokens.         *)
(***************************************************************************)
VARIABLES
    semaphore,                \* Semaphore::available_permits()
    max_permits,
    timeout_retry_cost,
    retry_cost,
    success_reward,
    fractional_tokens,
    permits,                  \* bag of the sizes of the permits callers hold
    ret,                      \* what the last acquire returned: "Some" / "None"
    pc,                       \* per caller: the statement it executes next
    full_tokens_accumulated,  \* per caller: local of reward_success
    tokens_to_add,            \* per caller: local of add_tokens
    nReward,                  \* reward_success calls that have returned
    credited,                 \* permits reward_success has added in total
    capped                    \* some add_tokens of reward_success added less than asked

\* The TokenBucketBuilder a bucket is being configured with.
VARIABLES
    builder,                  \* the TokenBucketBuilder (its four Options); None when
                              \* the bucket was not made through a followed builder
    built                     \* "-" before build(self), then "built", or "panicked"

builder_vars == <<builder, built>>

\* One request passing AwsChunkedContentEncodingInterceptor (aws_chunked.rs):
\* the request, the config bag's interceptor state, and what the hook returned.
VARIABLES
    body,                     \* the request's SdkBody
    headers,                  \* the request's header map, in insertion order
    cfg_checksum,             \* Option<RequestChecksumInterceptorState> in the bag
    cfg_signer,               \* Option<DeferredSigner> in the bag
    cfg_sender,               \* Option<DeferredSignerSender> in the bag
    result                    \* of modify_before_transmit: "-" before it is called

interceptor_vars ==
    <<body, headers, cfg_checksum, cfg_signer, cfg_sender, result>>

\* The signer/sender pairs made by DeferredSigner::new(), numbered in the
\* order they are made: the one-shot slot each pair shares and its two ends.
VARIABLES
    slot,                     \* per pair: [state, value]
    producer,                 \* per pair, the sender: "held", "consumed", "dropped"
    consumer,                 \* per pair, the signer: "held", "waiting",
                              \* "returned", "dropped"
    received,                 \* per pair: what the consumer's wait returned
    fulfils,                  \* per pair: values the producer has stored, in order
    fulfilled_in              \* per pair: the transform's phase when it was fulfilled

handoff_vars == <<slot, producer, consumer, received, fulfils, fulfilled_in>>

\* The AwsChunkedBody the interceptor installs, as the transport drains it.
VARIABLES
    phase,                    \* the transform's position: "-" while there is none
    read,                     \* bytes of the inner body read so far
    resolved,                 \* trailer values resolved so far, in field order
    output,                   \* the frames emitted so far
    drained                   \* how the drain ended: "-", "Ok", "HandoffAbandoned"

transform_vars == <<phase, read, resolved, output, drained>>

request_vars == <<interceptor_vars, handoff_vars, transform_vars>>

\* One operation execution passing EndpointOverrideInterceptor
\* (endpoint_discovery.rs) on its way to the captured request.
VARIABLES
    cfg_endpoint_url,         \* Option<EndpointUrl> in the config bag
    cfg_features,             \* the AwsSdkFeature values appended to the bag, in order
    override_result,          \* of read_before_execution: "-" before it is called
    transfer_hook,            \* TransferManagerFeatureInterceptor on the client:
                              \* "absent", "pushed", "ran"
    user_agent                \* Option: x-amz-user-agent of the captured request

execution_vars ==
    <<cfg_endpoint_url, cfg_features, override_result, transfer_hook, user_agent>>

\* The clones of one TokenBucket and the allocations their Arcs point to.
VARIABLES
    clones,                   \* the TokenBucket values: the fields of the struct,
                              \* semaphore and fractional_tokens being pointers
    semaphores,               \* per Semaphore allocation: its available permits
    mutexes,                  \* per Mutex<f64> allocation: the f64 it guards
    acted                     \* the clones a call has been made through

clone_vars == <<clones, semaphores, mutexes, acted>>

\* everything that is not the bucket, its callers and its history
not_bucket == <<builder_vars, request_vars, execution_vars, clone_vars>>

\* the bucket, its callers and its history
bucket_vars ==
    <<semaphore, max_permits, timeout_retry_cost, retry_cost, success_reward,
      fractional_tokens, permits, ret, pc, full_tokens_accumulated,
      tokens_to_add, nReward, credited, capped>>

vars ==
    <<semaphore, max_permits, timeout_retry_cost, retry_cost, success_reward,
      fractional_tokens, permits, ret, pc, full_tokens_accumulated,
      tokens_to_add, nReward, credited, capped, not_bucket>>

config == <<max_permits, timeout_retry_cost, retry_cost, success_reward>>

locals == <<full_tokens_accumulated, tokens_to_add>>

history == <<nReward, credited, capped>>

\* the state right after the bucket b is constructed: nobody holds a permit
\* and no caller is inside a call
Constructed(b) ==
    /\ semaphore = b.semaphore
    /\ max_permits = b.max_permits
    /\ timeout_retry_cost = b.timeout_retry_cost
    /\ retry_cost = b.retry_cost
    /\ success_reward = b.success_reward
    /\ fractional_tokens = b.fractional_tokens
    /\ permits = EmptyBag
    /\ ret = "-"
    /\ pc = [t \in Threads |-> "idle"]
    /\ full_tokens_accumulated = [t \in Threads |-> 0]
    /\ tokens_to_add = [t \in Threads |-> 0]
    /\ nReward = 0
    /\ credited = 0
    /\ capped = FALSE

\* no builder is followed
NoBuilder == builder = None /\ built = "-"

\* SdkBody::taken(): the body left behind when one is moved out
SdkBodyTaken == [kind |-> "taken"]

\* no request is followed
NoRequest ==
    /\ body = SdkBodyTaken
    /\ headers = <<>>
    /\ cfg_checksum = None
    /\ cfg_signer = None
    /\ cfg_sender = None
    /\ result = "-"
    /\ slot = <<>>
    /\ producer = <<>>
    /\ consumer = <<>>
    /\ received = <<>>
    /\ fulfils = <<>>
    /\ fulfilled_in = <<>>
    /\ phase = "-"
    /\ read = 0
    /\ resolved = <<>>
    /\ output = <<>>
    /\ drained = "-"

\* no clone is followed
NoClones ==
    /\ clones = <<>>
    /\ semaphores = <<>>
    /\ mutexes = <<>>
    /\ acted = {}

\* no operation execution is followed
NoExecution ==
    /\ cfg_endpoint_url = None
    /\ cfg_features = <<>>
    /\ override_result = "-"
    /\ transfer_hook = "absent"
    /\ user_agent = None

Init ==
    /\ \E b \in Buckets : Constructed(b)
    /\ NoBuilder /\ NoRequest /\ NoExecution /\ NoClones

InitShared ==
    /\ \E b \in SharedBuckets : Constructed(b)
    /\ NoBuilder /\ NoRequest /\ NoExecution /\ NoClones

(***************************************************************************)
(* acquire                                                                 *)
(***************************************************************************)
\* acquire as it would be if it charged every failure kind the same
RetryCostFlat(err) == retry_cost

\* the cost acquire charges for err
RetryCost(err) ==
    IF err = "TransientError" THEN timeout_retry_cost ELSE retry_cost

\* try_acquire_many_owned as it would be if a failed attempt kept the permits
\* it found
TryAcquireDraining(available, n) ==
    IF n <= available
    THEN [ok |-> TRUE, available |-> available - n]
    ELSE [ok |-> FALSE, available |-> 0]

\* try_acquire_many_owned as it would be if it needed one permit to be left
TryAcquireStrict(available, n) ==
    IF n < available
    THEN [ok |-> TRUE, available |-> available - n]
    ELSE [ok |-> FALSE, available |-> available]

\* Semaphore::acquire_many_owned(n).await returns only once n permits are
\* available: until then the caller is suspended
AcquireManyOwnedReturns(available, n) == n <= available

\* Semaphore::try_acquire_many_owned(n) never waits: it returns at once,
\* whatever the available count
TryAcquireManyOwnedReturns(available, n) == TRUE

\* Semaphore::try_acquire_many_owned(n) on a semaphore that is never closed:
\* takes n permits in one atomic step, or none
TryAcquireManyOwned(available, n) ==
    IF n <= available
    THEN [ok |-> TRUE, available |-> available - n]
    ELSE [ok |-> FALSE, available |-> available]

\* lines 74-85, one atomic step.  A permit that is returned joins the held
\* permits; at most MaxHeld are followed at a time.
Acquire(t, err) ==
    /\ pc[t] = "idle"
    /\ TryAcquireManyOwnedReturns(semaphore, RetryCost(err))
    /\ LET r == TryAcquireManyOwned(semaphore, RetryCost(err))
       IN  /\ r.ok => BagCardinality(permits) < MaxHeld
           /\ semaphore' = r.available
           /\ permits' = IF r.ok THEN permits (+) SetToBag({RetryCost(err)})
                                 ELSE permits
           /\ ret' = IF r.ok THEN "Some" ELSE "None"
    /\ UNCHANGED <<not_bucket, config, fractional_tokens, pc, locals, history>>

\* a permit that gives nothing back
PermitReleaseNothing(n) == 0

\* the permits an OwnedSemaphorePermit of size n gives back when it is dropped
PermitRelease(n) == n

\* a holder drops one of the permits acquire returned: OwnedSemaphorePermit's
\* Drop returns its permits to the semaphore (a permit of an unlimited bucket
\* has size 0, so MAX_PERMITS is never exceeded)
DropPermit ==
    \E n \in BagToSet(permits) :
        /\ permits' = permits (-) SetToBag({n})
        /\ semaphore' = semaphore + PermitRelease(n)
        /\ UNCHANGED <<not_bucket, config, fractional_tokens, ret, pc, locals, history>>

(***************************************************************************)
(* add_tokens                                                              *)
(***************************************************************************)
\* line 104 as it would be without the cap
TokensToAddUncapped(amount, available) == {[panic |-> FALSE, n |-> amount]}

\* amount.min(self.max_permits - available): the outcomes of line 104 when
\* it reads `available`.  The usize subtraction underflows when available is
\* above max_permits: it panics where overflow checks are on (debug builds)
\* and wraps to 2^64 - (available - max_permits), which is above amount,
\* where they are off (release builds).
TokensToAdd(amount, available) ==
    IF available <= max_permits
    THEN {[panic |-> FALSE, n |-> Min(amount, max_permits - available)]}
    ELSE {[panic |-> TRUE, n |-> 0]}
         \cup (IF available + amount <= max_permits + MaxOverfill
               THEN {[panic |-> FALSE, n |-> amount]}
               ELSE {})

\* line 104, executed by caller t with the given amount; next is the label of
\* the caller's line 106
AddTokensRead(t, amount, next) ==
    \E o \in TokensToAdd(amount, semaphore) :
        /\ pc' = [pc EXCEPT ![t] = IF o.panic THEN "panicked" ELSE next]
        /\ tokens_to_add' = [tokens_to_add EXCEPT ![t] = o.n]
        /\ capped' = (capped \/ (next = "reward_add_permits" /\ o.n < amount))

(***************************************************************************)
(* regenerate_a_token, one step per access to the shared semaphore         *)
(***************************************************************************)
\* line 88 into line 104
RegenerateAToken(t) ==
    /\ pc[t] = "idle"
    /\ AddTokensRead(t, PERMIT_REGENERATION_AMOUNT, "regenerate_add_permits")
    /\ UNCHANGED <<not_bucket, semaphore, config, fractional_tokens, permits, ret,
                   full_tokens_accumulated, nReward, credited>>

\* line 106 of the call made by regenerate_a_token
RegenerateAddPermits(t) ==
    /\ pc[t] = "regenerate_add_permits"
    /\ semaphore' = semaphore + tokens_to_add[t]
    /\ pc' = [pc EXCEPT ![t] = "idle"]
    /\ tokens_to_add' = [tokens_to_add EXCEPT ![t] = 0]
    /\ UNCHANGED <<not_bucket, config, fractional_tokens, permits, ret,
                   full_tokens_accumulated, history>>

(***************************************************************************)
(* reward_success, one step per acquisition of the accumulator's lock and  *)
(* per access to the semaphore                                             *)
(***************************************************************************)
\* lines 92-94: the accumulator after the reward is added
RewardAccumulate(fractional) ==
    IF F64Positive(success_reward)
    THEN F64Add(fractional, success_reward)
    ELSE fractional

\* line 98 as it would be if the whole tokens that do not fit were kept
RewardSettleBanking(fractional, full_tokens) ==
    F64Sub(fractional, F64FromInt(Min(full_tokens, max_permits - semaphore)))

\* line 98: the accumulator after the whole tokens are taken out
RewardSettle(fractional, full_tokens) ==
    F64Sub(fractional, F64FromInt(full_tokens))

\* reward_success calls running now
InReward == {t \in Threads : pc[t] \in {"reward_floor", "reward_sub",
                                        "reward_add_tokens", "reward_add_permits"}}

\* lines 92-94
RewardAdd(t) ==
    /\ pc[t] = "idle"
    /\ nReward + Cardinality(InReward) < MaxRewards
    /\ fractional_tokens' = RewardAccumulate(fractional_tokens)
    /\ pc' = [pc EXCEPT ![t] = "reward_floor"]
    /\ UNCHANGED <<not_bucket, semaphore, config, permits, ret, locals, history>>

\* lines 96-97
RewardFloor(t) ==
    /\ pc[t] = "reward_floor"
    /\ LET full == F64Floor(fractional_tokens)
       IN  IF full >= 1
           THEN /\ full_tokens_accumulated' =
                       [full_tokens_accumulated EXCEPT ![t] = full]
                /\ pc' = [pc EXCEPT ![t] = "reward_sub"]
                /\ UNCHANGED nReward
           ELSE /\ pc' = [pc EXCEPT ![t] = "idle"]
                /\ nReward' = nReward + 1
                /\ UNCHANGED full_tokens_accumulated
    /\ UNCHANGED <<not_bucket, semaphore, config, fractional_tokens, permits, ret,
                   tokens_to_add, credited, capped>>

\* line 98
RewardSub(t) ==
    /\ pc[t] = "reward_sub"
    /\ fractional_tokens' =
           RewardSettle(fractional_tokens, full_tokens_accumulated[t])
    /\ pc' = [pc EXCEPT ![t] = "reward_add_tokens"]
    /\ UNCHANGED <<not_bucket, semaphore, config, permits, ret, locals, history>>

\* line 99 into line 104
RewardAddTokens(t) ==
    /\ pc[t] = "reward_add_tokens"
    /\ AddTokensRead(t, full_tokens_accumulated[t], "reward_add_permits")
    /\ UNCHANGED <<not_bucket, semaphore, config, fractional_tokens, permits, ret,
                   full_tokens_accumulated, nReward, credited>>

\* line 106 of the call made by reward_success, and the return
RewardAddPermits(t) ==
    /\ pc[t] = "reward_add_permits"
    /\ semaphore' = semaphore + tokens_to_add[t]
    /\ pc' = [pc EXCEPT ![t] = "idle"]
    /\ tokens_to_add' = [tokens_to_add EXCEPT ![t] = 0]
    /\ full_tokens_accumulated' = [full_tokens_accumulated EXCEPT ![t] = 0]
    /\ nReward' = nReward + 1
    /\ credited' = credited + tokens_to_add[t]
    /\ UNCHANGED <<not_bucket, config, fractional_tokens, permits, ret, capped>>

(***************************************************************************)
(* The same handlers run by a single caller, each call from its first      *)
(* statement to its return with no other caller in between.                *)
(***************************************************************************)
Alone == \A t \in Threads : pc[t] = "idle"

CallAcquire(err) == Alone /\ Acquire(1, err)

CallDropPermit == Alone /\ DropPermit

\* add_tokens(amount) as one call: lines 104-106
CallAddTokens(amount, isReward) ==
    \E o \in TokensToAdd(amount, semaphore) :
        /\ pc' = [pc EXCEPT ![1] = IF o.panic THEN "panicked" ELSE "idle"]
        /\ semaphore' = semaphore + o.n
        /\ nReward' = IF isReward /\ ~o.panic THEN nReward + 1 ELSE nReward
        /\ credited' = IF isReward THEN credited + o.n ELSE credited
        /\ capped' = (capped \/ (isReward /\ o.n < amount))

CallRegenerateAToken ==
    /\ Alone
    /\ CallAddTokens(PERMIT_REGENERATION_AMOUNT, FALSE)
    /\ UNCHANGED <<not_bucket, config, fractional_tokens, permits, ret, locals>>

CallRewardSuccess ==
    /\ Alone
    /\ nReward < MaxSeqRewards
    /\ LET added == RewardAccumulate(fractional_tokens)
           full == F64Floor(added)
       IN  IF full >= 1
           THEN /\ fractional_tokens' = RewardSettle(added, full)
                /\ CallAddTokens(full, TRUE)
           ELSE /\ fractional_tokens' = added
                /\ nReward' = nReward + 1
                /\ UNCHANGED <<semaphore, pc, credited, capped>>
    /\ UNCHANGED <<not_bucket, config, permits, ret, locals>>

(***************************************************************************)
(* Specifications                                                          *)
(***************************************************************************)
\* concurrent callers; permits are dropped at any time
Next ==
    \/ \E t \in Threads, err \in ErrorKind : Acquire(t, err)
    \/ DropPermit
    \/ \E t \in Threads : RegenerateAToken(t)
    \/ \E t \in Threads : RegenerateAddPermits(t)
    \/ \E t \in Threads : RewardAdd(t)
    \/ \E t \in Threads : RewardFloor(t)
    \/ \E t \in Threads : RewardSub(t)
    \/ \E t \in Threads : RewardAddTokens(t)
    \/ \E t \in Threads : RewardAddPermits(t)

Spec == InitShared /\ [][Next]_vars

\* concurrent callers that keep every permit they are given
NextRetained ==
    \/ \E t \in Threads, err \in ErrorKind : Acquire(t, err)
    \/ \E t \in Threads : RegenerateAToken(t)
    \/ \E t \in Threads : RegenerateAddPermits(t)
    \/ \E t \in Threads : RewardAdd(t)
    \/ \E t \in Threads : RewardFloor(t)
    \/ \E t \in Threads : RewardSub(t)
    \/ \E t \in Threads : RewardAddTokens(t)
    \/ \E t \in Threads : RewardAddPermits(t)

SpecRetained == InitShared /\ [][NextRetained]_vars

\* one caller, one call at a time; permits are dropped between calls
NextSeq ==
    \/ \E err \in ErrorKind : CallAcquire(err)
    \/ CallDropPermit
    \/ CallRegenerateAToken
    \/ CallRewardSuccess

SpecSeq == Init /\ [][NextSeq]_vars

\* one caller, one call at a time, that keeps every permit it is given
NextSeqRetained ==
    \/ \E err \in ErrorKind : CallAcquire(err)
    \/ CallRegenerateAToken
    \/ CallRewardSuccess

SpecSeqRetained == Init /\ [][NextSeqRetained]_vars

(***************************************************************************)
(* Clones.  TokenBucket derives Clone (lines 20-28): the scalar fields are *)
(* copied, and the two Arcs are cloned, which makes another pointer to the *)
(* same allocation.  Each call is made through one clone and runs from its *)
(* first statement to its return; the permits acquire returns are kept.    *)
(***************************************************************************)
\* clones of one bucket
MaxClones == 3

\* a clone that makes an allocation of its own
ArcDeepClone(ptr, fresh) == fresh

\* Arc::clone: a pointer to the allocation ptr points to (fresh is the
\* place a new allocation would take)
ArcClone(ptr, fresh) == ptr

\* the buckets whose clones are followed
ClonedBuckets ==
    {TokenBucketNew(10),
     TokenBucketBuilderBuild(SmallBuilder(F64_0_5)),
     TokenBucketBuilderBuild(SmallBuilder(F64_1_5))}

\* the bucket b as constructed: one Semaphore and one Mutex<f64> are
\* allocated, and the one TokenBucket points to them
InitClones ==
    /\ \E b \in ClonedBuckets :
           /\ Constructed(b)
           /\ semaphores = <<b.semaphore>>
           /\ mutexes = <<b.fractional_tokens>>
           /\ clones = <<[b EXCEPT !.semaphore = 1, !.fractional_tokens = 1]>>
    /\ acted = {}
    /\ NoBuilder /\ NoRequest /\ NoExecution

not_clones == <<bucket_vars, builder_vars, request_vars, execution_vars>>

\* what a caller observes through clone h
AvailableThrough(h) == semaphores[clones[h].semaphore]

FractionalThrough(h) == mutexes[clones[h].fractional_tokens]

\* #[derive(Clone)], line 20: clone h is cloned
CloneBucket(h) ==
    /\ Len(clones) < MaxClones
    /\ LET c == clones[h]
           s == ArcClone(c.semaphore, Len(semaphores) + 1)
           m == ArcClone(c.fractional_tokens, Len(mutexes) + 1)
       IN  /\ clones' = Append(clones, [c EXCEPT !.semaphore = s,
                                                 !.fractional_tokens = m])
           /\ semaphores' = IF s > Len(semaphores)
                            THEN Append(semaphores, semaphores[c.semaphore])
                            ELSE semaphores
           /\ mutexes' = IF m > Len(mutexes)
                         THEN Append(mutexes, mutexes[c.fractional_tokens])
                         ELSE mutexes
    /\ UNCHANGED <<acted, not_clones>>

\* acquire through clone h, lines 74-85
CloneAcquire(h, err) ==
    LET c == clones[h]
        cost == IF err = "TransientError" THEN c.timeout_retry_cost
                                          ELSE c.retry_cost
        r == TryAcquireManyOwned(semaphores[c.semaphore], cost)
    IN  /\ semaphores' = [semaphores EXCEPT ![c.semaphore] = r.available]
        /\ acted' = acted \cup {h}
        /\ UNCHANGED <<clones, mutexes, not_clones>>

\* add_tokens(amount) through the clone c, lines 103-107 (the permits are
\* kept and the calls do not overlap, so available is at most max_permits)
CloneAddTokens(c, amount) ==
    LET available == semaphores[c.semaphore]
        tokens_to_add_ == Min(amount, c.max_permits - available)
    IN  semaphores' = [semaphores EXCEPT ![c.semaphore] = available + tokens_to_add_]

\* regenerate_a_token through clone h, lines 87-89
CloneRegenerateAToken(h) ==
    /\ CloneAddTokens(clones[h], PERMIT_REGENERATION_AMOUNT)
    /\ acted' = acted \cup {h}
    /\ UNCHANGED <<clones, mutexes, not_clones>>

\* reward_success through clone h, lines 91-101
CloneRewardSuccess(h) ==
    LET c == clones[h]
        added == IF F64Positive(c.success_reward)
                 THEN F64Add(mutexes[c.fractional_tokens], c.success_reward)
                 ELSE mutexes[c.fractional_tokens]
        full == F64Floor(added)
    IN  /\ IF full >= 1
           THEN /\ mutexes' = [mutexes EXCEPT ![c.fractional_tokens] =
                                   F64Sub(added, F64FromInt(full))]
                /\ CloneAddTokens(c, full)
           ELSE /\ mutexes' = [mutexes EXCEPT ![c.fractional_tokens] = added]
                /\ UNCHANGED semaphores
        /\ acted' = acted \cup {h}
        /\ UNCHANGED <<clones, not_clones>>

NextClones ==
    \/ \E h \in 1 .. Len(clones) : CloneBucket(h)
    \/ \E h \in 1 .. Len(clones), err \in ErrorKind : CloneAcquire(h, err)
    \/ \E h \in 1 .. Len(clones) : CloneRegenerateAToken(h)
    \/ \E h \in 1 .. Len(clones) : CloneRewardSuccess(h)

SpecClones == InitClones /\ [][NextClones]_vars

(***************************************************************************)
(* TokenBucketBuilder: a builder is configured by its setters, in any      *)
(* order and any number of times, and then built.                          *)
(***************************************************************************)
\* the values the setters are called with
Capacities == {3, 100, MAX_PERMITS + 1}

RetryCosts == {1, 10}

TimeoutRetryCosts == {2, 20}

SuccessRewards == {F64_0_5, F64_2_0}

\* TokenBucket::builder(): no bucket exists yet (its fields hold no value the
\* builder specification reads)
InitBuilder ==
    /\ builder = TokenBucketBuilderDefault
    /\ built = "-"
    /\ semaphore = 0
    /\ max_permits = 0
    /\ timeout_retry_cost = 0
    /\ retry_cost = 0
    /\ success_reward = F64Zero
    /\ fractional_tokens = F64Zero
    /\ permits = EmptyBag
    /\ ret = "-"
    /\ pc = [t \in Threads |-> "idle"]
    /\ full_tokens_accumulated = [t \in Threads |-> 0]
    /\ tokens_to_add = [t \in Threads |-> 0]
    /\ nReward = 0
    /\ credited = 0
    /\ capped = FALSE
    /\ NoRequest
    /\ NoExecution
    /\ NoClones

\* a setter replaces the builder by the one it returns
Set(b) ==
    /\ built = "-"
    /\ builder' = b
    /\ UNCHANGED <<semaphore, config, fractional_tokens, permits, ret, pc,
                   locals, history, built, request_vars, execution_vars, clone_vars>>

SetCapacity == \E c \in Capacities : Set(BuilderCapacity(builder, c))

SetRetryCost == \E c \in RetryCosts : Set(BuilderRetryCost(builder, c))

SetTimeoutRetryCost ==
    \E c \in TimeoutRetryCosts : Set(BuilderTimeoutRetryCost(builder, c))

SetSuccessReward ==
    \E r \in SuccessRewards : Set(BuilderSuccessReward(builder, r))

\* build(self), lines 154-164.  Semaphore::new panics when it is asked for
\* more than MAX_PERMITS permits.
Build ==
    /\ built = "-"
    /\ LET b == TokenBucketBuilderBuild(builder)
       IN  IF b.semaphore <= MAX_PERMITS
           THEN /\ semaphore' = b.semaphore
                /\ max_permits' = b.max_permits
                /\ retry_cost' = b.retry_cost
                /\ timeout_retry_cost' = b.timeout_retry_cost
                /\ success_reward' = b.success_reward
                /\ fractional_tokens' = b.fractional_tokens
                /\ built' = "built"
           ELSE /\ built' = "panicked"
                /\ UNCHANGED <<semaphore, config, fractional_tokens>>
    /\ UNCHANGED <<builder, permits, ret, pc, locals, history, request_vars,
                   execution_vars, clone_vars>>

NextBuilder ==
    \/ SetCapacity
    \/ SetRetryCost
    \/ SetTimeoutRetryCost
    \/ SetSuccessReward
    \/ Build

SpecBuilder == InitBuilder /\ [][NextBuilder]_vars

(***************************************************************************)
(* AwsChunkedContentEncodingInterceptor (aws_chunked.rs): the request and   *)
(* the config bag it works on.                                             *)
(***************************************************************************)
\* signer/sender pairs made for one request (read_before_signing runs once
\* per attempt)
MaxPairs == 2

\* bytes the inner body hands over in one short read
MaxPiece == 2

\* short reads of one drain: after them the inner body hands over all it has
\* left in one piece
MaxShortReads == 3

HelloWorld == <<"H", "e", "l", "l", "o", ",", " ", "w", "o", "r", "l", "d">>

\* the payloads of the request bodies that are followed
Payloads == {<<>>, <<"a">>, <<"a", "b">>, HelloWorld}

\* a body whose bytes are in memory: bytes() is Some and the size is exact
SdkBodyFrom(data) ==
    [kind |-> "bytes", data |-> data, exact |-> Some(Len(data))]

\* a streaming body: bytes() is None; sized says whether its size_hint has
\* an exact length
SdkBodyStreaming(data, sized) ==
    [kind |-> "streaming", data |-> data,
     exact |-> IF sized THEN Some(Len(data)) ELSE None]

Bodies ==
    {SdkBodyFrom(d) : d \in Payloads}
    \cup {SdkBodyStreaming(d, sized) : d \in Payloads, sized \in BOOLEAN}

\* bytes() as it would be if no body had its bytes in memory
SdkBodyBytesNone(b) == None

\* SdkBody::bytes()
SdkBodyBytes(b) == IF b.kind = "bytes" THEN Some(b.data) ELSE None

\* size_hint().exact() as it would be if an unknown size were taken for 0
SizeHintLower(b) == IF b.exact = None THEN Some(0) ELSE b.exact

\* body().size_hint().exact()
SizeHintExact(b) == b.exact

\* what RequestChecksumInterceptor may have left in the config bag:
\* nothing, a state without an algorithm, a state with one
ChecksumAlgorithms == {"crc32", "sha256"}

ChecksumStates ==
    {None, Some([checksum_algorithm |-> None])}
    \cup {Some([checksum_algorithm |-> Some(a)]) : a \in ChecksumAlgorithms}

\* HttpChecksum::size: the trailer's name, ":" and the base64 of the checksum
HttpChecksumSize(algorithm) ==
    IF algorithm = "crc32" THEN 20 + 1 + 8 ELSE 21 + 1 + 44

\* header_value::AWS_CHUNKED
AWS_CHUNKED == "aws-chunked"

Header(name, value) == [name |-> name, value |-> value]

\* the header maps of the requests that are followed
HeaderMaps ==
    {<<>>,
     <<Header("content-encoding", "gzip")>>,
     <<Header("x-amz-decoded-content-length", "7"),
       Header("content-encoding", "gzip"),
       Header("content-encoding", "deflate")>>}

\* the values of a header, in order
HeaderGetAll(h, name) ==
    LET sel == SelectSeq(h, LAMBDA e : e.name = name)
    IN  [i \in 1 .. Len(sel) |-> sel[i].value]

\* HeaderMap::insert: the value replaces every value the name had
HeaderInsert(h, name, value) ==
    Append(SelectSeq(h, LAMBDA e : e.name # name), Header(name, value))

\* HeaderMap::append as it would be if it replaced like insert
HeaderAppendReplacing(h, name, value) ==
    Append(SelectSeq(h, LAMBDA e : e.name # name), Header(name, value))

\* HeaderMap::append: the value is added after the ones the name has
HeaderAppend(h, name, value) == Append(h, Header(name, value))

Digit(d) == <<"0", "1", "2", "3", "4", "5", "6", "7", "8", "9">>[d + 1]

\* HeaderValue::from(u64): the number in decimal digits
RECURSIVE HeaderValueFromU64(_)
HeaderValueFromU64(n) ==
    IF n < 10 THEN Digit(n) ELSE HeaderValueFromU64(n \div 10) \o Digit(n % 10)

\* mem::replace as it would be if the value stayed where it was
MemReplaceKeeping(dest, src) == [old |-> dest, left |-> dest]

\* std::mem::replace(dest, src): hands out the value of dest and leaves src
\* in its place
MemReplace(dest, src) == [old |-> dest, left |-> src]

\* DeferredSigner::empty(): the placeholder that belongs to no pair
DeferredSignerEmpty == [pair |-> 0]

\* the signer of the pair numbered id
DeferredSignerOf(id) == [pair |-> id]

\* AwsChunkedBodyOptions::new(stream_length, trailer_lengths)
AwsChunkedBodyOptionsNew(stream_length, trailer_lengths) ==
    [stream_length |-> stream_length, trailer_lengths |-> trailer_lengths]

\* AwsChunkedBody::new(inner, options)
AwsChunkedBodyNew(inner, options) ==
    [kind |-> "aws_chunked", inner |-> inner, options |-> options,
     signer |-> DeferredSignerEmpty]

\* AwsChunkedBody::with_signer
WithSigner(chunked, signer) == [chunked EXCEPT !.signer = signer]

\* the request as the interceptor finds it: any body and header map, any
\* checksum state in the bag, no signer or sender stored yet
RequestStarts(bodies, maps, states) ==
    /\ Constructed(TokenBucketDefault)
    /\ NoBuilder
    /\ NoExecution
    /\ NoClones
    /\ body \in bodies
    /\ headers \in maps
    /\ cfg_checksum \in states
    /\ cfg_signer = None
    /\ cfg_sender = None
    /\ result = "-"
    /\ slot = <<>>
    /\ producer = <<>>
    /\ consumer = <<>>
    /\ received = <<>>
    /\ fulfils = <<>>
    /\ fulfilled_in = <<>>
    /\ phase = "-"
    /\ read = 0
    /\ resolved = <<>>
    /\ output = <<>>
    /\ drained = "-"

InitRequest == RequestStarts(Bodies, HeaderMaps, ChecksumStates)

\* the pair a handle stored in the bag belongs to (0: none stored, or the
\* placeholder)
StoredSigner == IF cfg_signer = None THEN 0 ELSE cfg_signer[1].pair

StoredSender == IF cfg_sender = None THEN 0 ELSE cfg_sender[1]

\* read_before_signing, lines 40-51.  DeferredSigner::new() makes a pair on
\* an empty slot; each store_put replaces, and so drops, the value of that
\* type stored before: a sender dropped unfulfilled abandons its slot.
ReadBeforeSigning ==
    /\ result = "-"
    /\ Len(slot) < MaxPairs
    /\ LET id == Len(slot) + 1
       IN  /\ slot' = Append([i \in 1 .. Len(slot) |->
                                 IF i = StoredSender /\ producer[i] = "held"
                                 THEN [slot[i] EXCEPT !.state = "Abandoned"]
                                 ELSE slot[i]],
                             [state |-> "Empty", value |-> None])
           /\ producer' = Append([i \in 1 .. Len(producer) |->
                                     IF i = StoredSender /\ producer[i] = "held"
                                     THEN "dropped" ELSE producer[i]],
                                 "held")
           /\ consumer' = Append([i \in 1 .. Len(consumer) |->
                                     IF i = StoredSigner THEN "dropped"
                                                         ELSE consumer[i]],
                                 "held")
           /\ received' = Append(received, <<>>)
           /\ fulfils' = Append(fulfils, <<>>)
           /\ fulfilled_in' = Append(fulfilled_in, "-")
           /\ cfg_signer' = Some(DeferredSignerOf(id))
           /\ cfg_sender' = Some(id)
    /\ UNCHANGED <<body, headers, cfg_checksum, result, transform_vars,
                   bucket_vars, builder_vars,
                   execution_vars, clone_vars>>

\* modify_before_transmit, lines 53-108.  read_before_signing has run
\* earlier in the same attempt, so the bag holds a signer (line 79 unwraps).
ModifyBeforeTransmit ==
    /\ result = "-"
    /\ cfg_signer # None
    /\ IF SdkBodyBytes(body) # None
       THEN \* lines 59-62: not a streaming body
            /\ result' = "Ok"
            /\ UNCHANGED <<body, headers, cfg_signer, phase>>
       ELSE IF cfg_checksum = None
       THEN \* line 69: expect("state set")
            /\ result' = "panicked"
            /\ UNCHANGED <<body, headers, cfg_signer, phase>>
       ELSE IF cfg_checksum[1].checksum_algorithm = None
       THEN \* line 70: expect("set")
            /\ result' = "panicked"
            /\ UNCHANGED <<body, headers, cfg_signer, phase>>
       ELSE IF SizeHintExact(body) = None
       THEN \* lines 72-74
            /\ result' = "Err(UnsizedRequestBody)"
            /\ UNCHANGED <<body, headers, cfg_signer, phase>>
       ELSE LET original_body_size == SizeHintExact(body)[1]
                signer == MemReplace(cfg_signer[1], DeferredSignerEmpty)
                trailer_len ==
                    HttpChecksumSize(cfg_checksum[1].checksum_algorithm[1])
                aws_chunked_body_options ==
                    AwsChunkedBodyOptionsNew(original_body_size, <<trailer_len>>)
            IN  /\ cfg_signer' = Some(signer.left)
                /\ body' = WithSigner(
                               AwsChunkedBodyNew(body, aws_chunked_body_options),
                               signer.old)
                /\ headers' =
                       HeaderAppend(
                           HeaderInsert(headers, "x-amz-decoded-content-length",
                                        HeaderValueFromU64(original_body_size)),
                           "content-encoding", AWS_CHUNKED)
                /\ phase' = "payload"
                /\ result' = "Ok"
    /\ UNCHANGED <<cfg_checksum, cfg_sender, handoff_vars, read, resolved,
                   output, drained, bucket_vars, builder_vars,
                   execution_vars, clone_vars>>

NextInterceptor ==
    \/ ReadBeforeSigning
    \/ ModifyBeforeTransmit

SpecInterceptor == InitRequest /\ [][NextInterceptor]_vars

(***************************************************************************)
(* DeferredHandoff: the one-shot slot behind a signer/sender pair.  The    *)
(* sender is the producer handle, the signer the consumer handle.          *)
(***************************************************************************)
\* the values the signing stage may deliver
SignatureValues == {"sigA", "sigB"}

\* the pair whose consumer handle the installed body holds (0: none)
BodySigner == IF body.kind = "aws_chunked" THEN body.signer.pair ELSE 0

\* a producer handle that fulfill left usable
ProducerUsableAgain(handle) == handle \in {"held", "consumed"}

\* fulfill and drop need the handle; fulfill consumes it
ProducerUsable(handle) == handle = "held"

\* a wait that returns only for a value
SlotSettledByValue(state) == state = "Fulfilled"

\* a wait returns once the slot is Fulfilled or Abandoned
SlotSettled(state) == state \in {"Fulfilled", "Abandoned"}

\* a wait that takes an abandoned slot for an empty value
WaitResultLenient(s) ==
    IF s.state = "Fulfilled"
    THEN [ok |-> TRUE, value |-> s.value[1]]
    ELSE [ok |-> TRUE, value |-> ""]

\* Consumer::wait() -> Result<Value, Abandoned> on a settled slot
WaitResult(s) ==
    IF s.state = "Fulfilled"
    THEN [ok |-> TRUE, value |-> s.value[1]]
    ELSE [ok |-> FALSE, value |-> "Abandoned"]

\* the handle leaves the bag when it is used up or dropped
TakeSender(i) ==
    cfg_sender' = IF StoredSender = i THEN None ELSE cfg_sender

\* Producer::fulfill(value), by the stage that signs the request
Fulfill(i, value) ==
    /\ ProducerUsable(producer[i])
    /\ slot' = [slot EXCEPT ![i] = [state |-> "Fulfilled", value |-> Some(value)]]
    /\ producer' = [producer EXCEPT ![i] = "consumed"]
    /\ fulfils' = [fulfils EXCEPT ![i] = Append(@, value)]
    /\ fulfilled_in' = [fulfilled_in EXCEPT ![i] = phase]
    /\ TakeSender(i)
    /\ UNCHANGED <<body, headers, cfg_checksum, cfg_signer, result, consumer,
                   received, transform_vars, bucket_vars, builder_vars,
                   execution_vars, clone_vars>>

\* the producer handle is dropped without fulfill
DropProducer(i) ==
    /\ producer[i] = "held"
    /\ slot' = [slot EXCEPT ![i].state = "Abandoned"]
    /\ producer' = [producer EXCEPT ![i] = "dropped"]
    /\ TakeSender(i)
    /\ UNCHANGED <<body, headers, cfg_checksum, cfg_signer, result, consumer,
                   received, fulfils, fulfilled_in, transform_vars,
                   bucket_vars, builder_vars,
                   execution_vars, clone_vars>>

\* the stage that signs the request delivers the signing value
SigningStageFulfills ==
    \E i \in 1 .. Len(slot), value \in SignatureValues : Fulfill(i, value)

\* the pipeline fails before it signs, and the sender is dropped
SigningStageDrops == \E i \in 1 .. Len(slot) : DropProducer(i)

\* the producer stage acts
ProducerActs == SigningStageFulfills \/ SigningStageDrops

(***************************************************************************)
(* ChunkedBodyTransform: the drain of the installed AwsChunkedBody, one    *)
(* step per frame emitted and per trailer value resolved.                  *)
(***************************************************************************)
\* frames of the output
Chunk(data) == [kind |-> "chunk", data |-> data]

LastChunk == [kind |-> "chunk", data |-> <<>>]

TrailerField(name, value) == [kind |-> "trailer", name |-> name, value |-> value]

TrailerEnd == [kind |-> "end"]

\* the trailer's providers, in field order: the checksum, then the
\* signature when the body was given a signer
TrailerProviders ==
    <<[name |-> "checksum", kind |-> "checksum"]>>
    \o (IF BodySigner > 0
        THEN <<[name |-> "signature", kind |-> "deferred"]>>
        ELSE <<>>)

\* the bytes of data as one text
RECURSIVE Text(_)
Text(data) == IF data = <<>> THEN "" ELSE Head(data) \o Text(Tail(data))

\* the running checksum of the bytes read, finalized into its wire
\* representation (a text that stands for the checksum of exactly these bytes)
ChecksumOf(data) == "sum(" \o Text(data) \o ")"

\* the payload of the wrapped body
InnerData == body.inner.data

\* the trailer fields emitted so far
TrailerFrames(out) == SelectSeq(out, LAMBDA f : f.kind = "trailer")

(***************************************************************************)
(* Wire format.  The output on the wire is a sequence of bytes; a trailer  *)
(* field's name and its value are each kept as one element.                *)
(***************************************************************************)
CRLF == <<"\r", "\n">>

HexDigit(d) ==
    <<"0", "1", "2", "3", "4", "5", "6", "7", "8", "9",
      "a", "b", "c", "d", "e", "f">>[d + 1]

\* a chunk length written in decimal digits
RECURSIVE DecimalLength(_)
DecimalLength(n) ==
    IF n < 10 THEN <<HexDigit(n)>>
    ELSE DecimalLength(n \div 10) \o <<HexDigit(n % 10)>>

\* <hex-length>: the chunk's length in ASCII hex digits
RECURSIVE HexLength(_)
HexLength(n) ==
    IF n < 16 THEN <<HexDigit(n)>>
    ELSE HexLength(n \div 16) \o <<HexDigit(n % 16)>>

\* the bytes of one frame: <hex-length>\r\n<data>\r\n for a chunk, 0\r\n for
\* the terminal chunk, <name>:<value>\r\n for a trailer field, and the final
\* \r\n
WireFrame(f) ==
    CASE f.kind = "chunk" /\ f.data # <<>> ->
             HexLength(Len(f.data)) \o CRLF \o f.data \o CRLF
      [] f.kind = "chunk" /\ f.data = <<>> -> <<"0">> \o CRLF
      [] f.kind = "trailer" -> <<f.name, ":", f.value>> \o CRLF
      [] f.kind = "end" -> CRLF

\* the bytes of an output
RECURSIVE Wire(_)
Wire(out) ==
    IF out = <<>> THEN <<>> ELSE WireFrame(Head(out)) \o Wire(Tail(out))

(***************************************************************************)
(* A chunked-transfer-encoding parser (RFC 9112, section 7.1): chunks of   *)
(* chunk-size CRLF chunk-data CRLF, the last chunk of size 0, the trailer  *)
(* section's field lines, and the CRLF that ends the message.  Chunk data  *)
(* is taken by its length, never by looking for a CRLF.                    *)
(***************************************************************************)
\* the value of a hex digit (either case), or -1
HexValue(byte) ==
    IF \E d \in 0 .. 15 : HexDigit(d) = byte
    THEN CHOOSE d \in 0 .. 15 : HexDigit(d) = byte
    ELSE CASE byte = "A" -> 10 [] byte = "B" -> 11 [] byte = "C" -> 12
           [] byte = "D" -> 13 [] byte = "E" -> 14 [] byte = "F" -> 15
           [] OTHER -> -1

\* there is a CRLF at pos
CRLFAt(w, pos) == pos + 1 <= Len(w) /\ w[pos] = "\r" /\ w[pos + 1] = "\n"

\* chunk-size: the hex digits from pos on; n is how many were read
RECURSIVE ReadChunkSize(_, _, _, _)
ReadChunkSize(w, pos, size, n) ==
    IF pos <= Len(w) /\ HexValue(w[pos]) >= 0
    THEN ReadChunkSize(w, pos + 1, size * 16 + HexValue(w[pos]), n + 1)
    ELSE [size |-> size, n |-> n, pos |-> pos]

\* what the parser reports for a message that is not well formed
Malformed == [ok |-> FALSE, payload |-> <<>>, trailer |-> <<>>, rest |-> <<>>]

\* trailer-section: field lines up to the empty line
RECURSIVE ParseTrailer(_, _, _, _)
ParseTrailer(w, pos, payload, fields) ==
    IF CRLFAt(w, pos)
    THEN [ok |-> TRUE, payload |-> payload, trailer |-> fields,
          rest |-> SubSeq(w, pos + 2, Len(w))]
    ELSE IF pos + 2 <= Len(w) /\ w[pos + 1] = ":" /\ CRLFAt(w, pos + 3)
    THEN ParseTrailer(w, pos + 5, payload,
                      Append(fields, [name |-> w[pos], value |-> w[pos + 2]]))
    ELSE Malformed

\* chunked-body: the chunks from pos on
RECURSIVE ParseChunks(_, _, _)
ParseChunks(w, pos, payload) ==
    LET s == ReadChunkSize(w, pos, 0, 0)
        data == s.pos + 2
    IN  IF s.n = 0 \/ ~CRLFAt(w, s.pos)
        THEN Malformed
        ELSE IF s.size = 0
        THEN ParseTrailer(w, data, payload, <<>>)
        ELSE IF CRLFAt(w, data + s.size)
        THEN ParseChunks(w, data + s.size + 2,
                         payload \o SubSeq(w, data, data + s.size - 1))
        ELSE Malformed

ChunkedDecode(w) == ParseChunks(w, 1, <<>>)

\* a transform that asks for trailer values as soon as it is polled
RequestsTrailerValuesEarly(p) ==
    p \in {"payload", "final_chunk", "awaiting_trailer"}

\* trailer values are resolved in the phase after the zero-length chunk
RequestsTrailerValues(p) == p = "awaiting_trailer"

\* the sizes of the piece a read of the inner body may hand over when it has
\* left bytes to give and has handed over so many pieces: all that is left,
\* or a short piece
PieceSizes(left, pieces) ==
    {n \in 1 .. left : n = left \/ (n <= MaxPiece /\ pieces < MaxShortReads)}

\* step 1: the next piece of the inner body, framed
EmitPayloadChunk ==
    /\ phase = "payload"
    /\ \E n \in PieceSizes(Len(InnerData) - read, Len(output)) :
           /\ output' = Append(output, Chunk(SubSeq(InnerData, read + 1, read + n)))
           /\ read' = read + n
    /\ UNCHANGED <<interceptor_vars, handoff_vars, phase, resolved, drained,
                   bucket_vars, builder_vars,
                   execution_vars, clone_vars>>

\* the inner body is exhausted
PayloadExhausted ==
    /\ phase = "payload"
    /\ read = Len(InnerData)
    /\ phase' = "final_chunk"
    /\ UNCHANGED <<interceptor_vars, handoff_vars, read, resolved, output,
                   drained, bucket_vars, builder_vars,
                   execution_vars, clone_vars>>

\* step 2: the zero-length chunk
EmitFinalChunk ==
    /\ phase = "final_chunk"
    /\ output' = Append(output, LastChunk)
    /\ phase' = "awaiting_trailer"
    /\ UNCHANGED <<interceptor_vars, handoff_vars, read, resolved, drained,
                   bucket_vars, builder_vars,
                   execution_vars, clone_vars>>

\* the provider whose value is resolved next (none: all are resolved)
NextProvider ==
    IF Len(resolved) < Len(TrailerProviders)
    THEN Some(TrailerProviders[Len(resolved) + 1])
    ELSE None

\* step 3, checksum provider
ResolveChecksum ==
    /\ RequestsTrailerValues(phase)
    /\ NextProvider # None
    /\ NextProvider[1].kind = "checksum"
    /\ resolved' = Append(resolved,
                          [name |-> NextProvider[1].name,
                           value |-> ChecksumOf(SubSeq(InnerData, 1, read))])
    /\ UNCHANGED <<interceptor_vars, handoff_vars, phase, read, output,
                   drained, bucket_vars, builder_vars,
                   execution_vars, clone_vars>>

\* step 3, deferred provider: Consumer::wait() is called and the drain is
\* suspended on it
AwaitDeferred ==
    /\ RequestsTrailerValues(phase)
    /\ NextProvider # None
    /\ NextProvider[1].kind = "deferred"
    /\ consumer[BodySigner] = "held"
    /\ consumer' = [consumer EXCEPT ![BodySigner] = "waiting"]
    /\ UNCHANGED <<interceptor_vars, slot, producer, received, fulfils,
                   fulfilled_in, transform_vars, bucket_vars, builder_vars,
                   execution_vars, clone_vars>>

\* the wait returns: the value is the field's value, or (step 5) the slot
\* was abandoned and the drain fails
WaitReturns ==
    /\ BodySigner > 0
    /\ consumer[BodySigner] = "waiting"
    /\ SlotSettled(slot[BodySigner].state)
    /\ LET r == WaitResult(slot[BodySigner])
       IN  /\ consumer' = [consumer EXCEPT ![BodySigner] = "returned"]
           /\ received' = [received EXCEPT ![BodySigner] = Append(@, r)]
           /\ IF r.ok
              THEN /\ resolved' = Append(resolved,
                                         [name |-> NextProvider[1].name,
                                          value |-> r.value])
                   /\ UNCHANGED <<phase, drained>>
              ELSE /\ phase' = "failed"
                   /\ drained' = "HandoffAbandoned"
                   /\ UNCHANGED resolved
    /\ UNCHANGED <<interceptor_vars, slot, producer, fulfils, fulfilled_in,
                   read, output, bucket_vars, builder_vars,
                   execution_vars, clone_vars>>

\* every provider's value is resolved
TrailerResolved ==
    /\ phase = "awaiting_trailer"
    /\ NextProvider = None
    /\ phase' = "emitting_trailer"
    /\ UNCHANGED <<interceptor_vars, handoff_vars, read, resolved, output,
                   drained, bucket_vars, builder_vars,
                   execution_vars, clone_vars>>

\* step 4: the next trailer field
EmitTrailerField ==
    /\ phase = "emitting_trailer"
    /\ Len(TrailerFrames(output)) < Len(resolved)
    /\ LET f == resolved[Len(TrailerFrames(output)) + 1]
       IN  output' = Append(output, TrailerField(f.name, f.value))
    /\ UNCHANGED <<interceptor_vars, handoff_vars, phase, read, resolved,
                   drained, bucket_vars, builder_vars,
                   execution_vars, clone_vars>>

\* step 4: the final CRLF
EmitTrailerEnd ==
    /\ phase = "emitting_trailer"
    /\ Len(TrailerFrames(output)) = Len(resolved)
    /\ output' = Append(output, TrailerEnd)
    /\ phase' = "done"
    /\ drained' = "Ok"
    /\ UNCHANGED <<interceptor_vars, handoff_vars, read, resolved,
                   bucket_vars, builder_vars,
                   execution_vars, clone_vars>>

\* the transport polls the body
Drain ==
    \/ EmitPayloadChunk
    \/ PayloadExhausted
    \/ EmitFinalChunk
    \/ ResolveChecksum
    \/ AwaitDeferred
    \/ WaitReturns
    \/ TrailerResolved
    \/ EmitTrailerField
    \/ EmitTrailerEnd

\* one request: the interceptor's hooks, the signing stage, the transport
NextRequest ==
    \/ ReadBeforeSigning
    \/ ModifyBeforeTransmit
    \/ SigningStageFulfills
    \/ SigningStageDrops
    \/ EmitPayloadChunk
    \/ PayloadExhausted
    \/ EmitFinalChunk
    \/ ResolveChecksum
    \/ AwaitDeferred
    \/ WaitReturns
    \/ TrailerResolved
    \/ EmitTrailerField
    \/ EmitTrailerEnd

\* the requests whose drain is followed: the bodies of up to three bytes,
\* one header map, a checksum state with an algorithm
InitDrained ==
    RequestStarts({b \in Bodies : Len(b.data) <= 3} \cup
                      {SdkBodyStreaming(<<"a", "b", "a">>, TRUE)},
                  {<<Header("content-encoding", "gzip")>>},
                  {Some([checksum_algorithm |-> Some("crc32")])})

SpecRequest == InitDrained /\ [][NextRequest]_vars

\* the transport keeps polling the body it was given, and the signing stage
\* runs whether or not the body has been drained
SpecRequestFair ==
    /\ InitDrained
    /\ [][NextRequest]_vars
    /\ WF_vars(Drain)
    /\ WF_vars(ProducerActs)

\* the bodies whose output is followed byte by byte: the scenario's
\* "Hello, world", a payload long enough for a two-digit chunk length, and
\* payloads that hold the bytes of the framing itself
WirePayloads ==
    {HelloWorld,
     HelloWorld \o <<"\r", "\n", "0", "\r">>,
     <<"\r", "\n">>,
     <<"0", "\r", "\n", "\r", "\n">>}

InitWire ==
    RequestStarts({SdkBodyStreaming(d, TRUE) : d \in WirePayloads},
                  {<<>>},
                  {Some([checksum_algorithm |-> Some("crc32")])})

\* a request that is signed: the hooks, the signing stage delivering the
\* value, the transport
NextWire ==
    \/ ReadBeforeSigning
    \/ ModifyBeforeTransmit
    \/ SigningStageFulfills
    \/ EmitPayloadChunk
    \/ PayloadExhausted
    \/ EmitFinalChunk
    \/ ResolveChecksum
    \/ AwaitDeferred
    \/ WaitReturns
    \/ TrailerResolved
    \/ EmitTrailerField
    \/ EmitTrailerEnd

SpecWire == InitWire /\ [][NextWire]_vars

(***************************************************************************)
(* EndpointOverrideInterceptor (aws-runtime/endpoint_discovery.rs) and the *)
(* business metrics of the captured request's x-amz-user-agent.  A URL is  *)
(* a sequence of pieces of text, cut so that every place where             *)
(* ".amazonaws.com" or ".amazonaws.com.cn" can begin or end is a cut.      *)
(***************************************************************************)
\* the endpoint URLs that are followed: the ones of the tests, standard
\* endpoints, and URLs in which the text sits in another host name or in
\* the path
EndpointUrls ==
    {<<"https://", "custom", ".example", ".com">>,
     <<"https://", "service", ".amazonaws", ".com">>,
     <<"http://", "localhost", ":9000">>,
     <<"https://", "s3", ".cn-north-1", ".amazonaws", ".com", ".cn">>,
     <<"https://", "s3", ".us-east-1", ".amazonaws", ".com", "/", "bucket">>,
     <<"https://", "bucket", ".s3", ".amazonaws", ".com">>,
     <<"https://", "storage", ".googleapis", ".com">>,
     <<"https://", "amazonaws", ".com">>,
     <<"https://", "s3", ".amazonaws", ".org">>,
     <<"https://", "s3", ".amazonaws">>,
     <<"https://", "s3", ".amazonaws", ".com", "munity">>,
     <<"https://", "s3", ".amazonaws", ".com", ".evil", ".org">>,
     <<"https://", "proxy", ".example", ".com", "/", "s3", ".amazonaws", ".com">>}

\* str::contains: pat occurs in text
Contains(text, pat) ==
    \E i \in 1 .. Len(text) - Len(pat) + 1 :
        SubSeq(text, i, i + Len(pat) - 1) = pat

\* the endpoint test as it would be if it looked for the China suffix only
IsCustomEndpointChinaOnly(url_str) ==
    ~Contains(url_str, <<".amazonaws", ".com", ".cn">>)

\* line 46
IsCustomEndpoint(url_str) ==
    /\ ~Contains(url_str, <<".amazonaws", ".com">>)
    /\ ~Contains(url_str, <<".amazonaws", ".com", ".cn">>)

\* an operation starts: the client may have been given an endpoint URL and
\* the tests' TransferManagerFeatureInterceptor
InitExecution ==
    /\ Constructed(TokenBucketDefault)
    /\ NoBuilder
    /\ NoRequest
    /\ NoClones
    /\ cfg_endpoint_url \in {None} \cup {Some(u) : u \in EndpointUrls}
    /\ cfg_features = <<>>
    /\ override_result = "-"
    /\ transfer_hook \in {"absent", "pushed"}
    /\ user_agent = None

\* EndpointOverrideInterceptor::read_before_execution, lines 32-53
ReadBeforeExecution ==
    /\ override_result = "-"
    /\ cfg_features' =
           IF cfg_endpoint_url # None /\ IsCustomEndpoint(cfg_endpoint_url[1])
           THEN Append(cfg_features, "EndpointOverride")
           ELSE cfg_features
    /\ override_result' = "Ok"
    /\ UNCHANGED <<cfg_endpoint_url, transfer_hook, user_agent, bucket_vars,
                   builder_vars, request_vars, clone_vars>>

\* TransferManagerFeatureInterceptor::read_before_execution
\* (business_metrics.rs, lines 26-34)
TransferManagerReadBeforeExecution ==
    /\ transfer_hook = "pushed"
    /\ cfg_features' = Append(cfg_features, "S3Transfer")
    /\ transfer_hook' = "ran"
    /\ UNCHANGED <<cfg_endpoint_url, override_result, user_agent, bucket_vars,
                   builder_vars, request_vars, clone_vars>>

\* the business metric a feature is reported as
BusinessMetric(feature) ==
    CASE feature = "EndpointOverride" -> "N"
      [] feature = "S3Transfer" -> "G"

\* the metric ids of the features, separated by commas
RECURSIVE MetricValues(_)
MetricValues(features) ==
    IF features = <<>> THEN <<>>
    ELSE IF Len(features) = 1 THEN <<BusinessMetric(features[1])>>
    ELSE <<BusinessMetric(Head(features)), ",">> \o MetricValues(Tail(features))

\* x-amz-user-agent: the SDK's own fields, then m/ and the metric ids when
\* there are any
UserAgent(features) ==
    <<"aws-sdk-rust/", "api/s3/">>
    \o (IF features = <<>> THEN <<>> ELSE <<"m/">> \o MetricValues(features))

\* the request is sent, after every read_before_execution hook has run, and
\* captured
SendRequest ==
    /\ override_result = "Ok"
    /\ transfer_hook # "pushed"
    /\ user_agent = None
    /\ user_agent' = Some(UserAgent(cfg_features))
    /\ UNCHANGED <<cfg_endpoint_url, cfg_features, override_result,
                   transfer_hook, bucket_vars, builder_vars, request_vars, clone_vars>>

NextExecution ==
    \/ ReadBeforeExecution
    \/ TransferManagerReadBeforeExecution
    \/ SendRequest

SpecExecution == InitExecution /\ [][NextExecution]_vars

(***************************************************************************)
(* Properties                                                              *)
(***************************************************************************)
\* the sum of the sizes of the permits callers hold
HeldTokens ==
    LET sizes == BagToSet(permits)
        Sum[S \in SUBSET sizes] ==
            IF S = {} THEN 0
            ELSE LET n == CHOOSE x \in S : TRUE
                 IN  n * CopiesIn(n, permits) + Sum[S \ {n}]
    IN  Sum[sizes]

\* n * r as an exact magnitude (no rounding), for r >= 0
RECURSIVE ExactTimes(_, _)
ExactTimes(n, r) ==
    IF n = 0 THEN [hi |-> 0, lo |-> 0] ELSE MagAdd(ExactTimes(n - 1, r), r)

\* floor(n * r)
FloorTimes(n, r) == ExactTimes(n, r).hi \div UnitsPerOneHi

IsUnlimited == max_permits = MAX_PERMITS

\* 0.0 <= a < 1.0
F64InUnitInterval(a) == ~a.neg /\ a.hi < UnitsPerOneHi

\* C1: with callers that keep their permits, in every interleaving of
\* acquire, regenerate_a_token and reward_success the available count is
\* never above max_permits and never below zero.
C1_AvailableWithinCapacity == semaphore >= 0 /\ semaphore <= max_permits

C3_CreditedIsFloor ==
    (Alone /\ ~capped) => credited = FloorTimes(nReward, success_reward)

\* C4: acquire charges all or nothing: with available >= cost it returns a
\* permit and available drops by exactly cost; with available < cost it
\* returns None and leaves available, the accumulator and the held permits as
\* they were.
C4_AcquireAllOrNothing ==
    [][\A t \in Threads, err \in ErrorKind :
          Acquire(t, err) =>
              IF semaphore >= RetryCost(err)
              THEN /\ ret' = "Some"
                   /\ semaphore' = semaphore - RetryCost(err)
                   /\ permits' = permits (+) SetToBag({RetryCost(err)})
                   /\ fractional_tokens' = fractional_tokens
              ELSE /\ ret' = "None"
                   /\ semaphore' = semaphore
                   /\ permits' = permits
                   /\ fractional_tokens' = fractional_tokens]_vars

\* an acquire found tokens, but fewer than its cost, and returned None
C4_Witness ==
    /\ ret = "None"
    /\ semaphore > 0
    /\ semaphore < retry_cost
    /\ permits # EmptyBag

\* C5: from a full bounded bucket, with every permit kept and nothing
\* credited back, an acquire of a kind with cost > 0 succeeds exactly while
\* fewer than floor(max_permits / cost) acquires of that kind have succeeded,
\* and returns None from then on.
C5_ExhaustionAfterFloor ==
    [][\A err \in ErrorKind :
          (/\ CallAcquire(err)
           /\ RetryCost(err) > 0
           /\ BagToSet(permits) \subseteq {RetryCost(err)}
           /\ semaphore + HeldTokens = max_permits)
          => ((ret' = "Some")
                <=> (BagCardinality(permits) < max_permits \div RetryCost(err)))]_vars

\* capacity 10, cost 5: two acquires succeeded and the third returned None
C5_Witness ==
    /\ max_permits = 10 /\ retry_cost = 5
    /\ BagToSet(permits) = {5} /\ CopiesIn(5, permits) = 2
    /\ semaphore = 0
    /\ ret = "None"

\* C6: on a bucket built by unlimited(), acquire succeeds for every failure
\* kind, however often, and the available count stays at the maximum.
C6_UnlimitedAlwaysAcquires ==
    IsUnlimited => (semaphore = MAX_PERMITS /\ ret # "None")

\* an unlimited bucket has handed out MaxHeld permits
C6_Witness ==
    /\ IsUnlimited
    /\ ret = "Some"
    /\ BagCardinality(permits) = MaxHeld

\* C7: whenever no reward_success call is running, the accumulator is in
\* [0, 1), also when callers ran reward_success concurrently.
C7_AccumulatorInUnitInterval == Alone => F64InUnitInterval(fractional_tokens)

\* C8: one caller, 0 < success_reward < 1, accumulator starting at 0, with
\* headroom: after n reward_success calls the available count has risen by
\* floor(n * success_reward).
C8_SequentialCreditIsFloor ==
    (/\ F64Positive(success_reward)
     /\ F64InUnitInterval(success_reward)
     /\ ~capped)
    => credited = FloorTimes(nReward, success_reward)

\* C9: reward_success never raises the available count above max_permits.
C9_RewardNeverAboveCapacity ==
    [][\A t \in Threads :
          RewardAddPermits(t) => semaphore' <= max_permits]_vars

\* C10: regenerate_a_token sets available to min(available + 1, max_permits)
\* (and returns).
C10_RegenerateSetsMin ==
    [][CallRegenerateAToken
          => /\ semaphore' = Min(semaphore + 1, max_permits)
             /\ pc' = pc]_vars

\* C11: an acquire that returns a permit charges timeout_retry_cost when the
\* failure kind is TransientError and retry_cost for every other kind: the
\* available count drops by exactly that and the permit has that size;
\* nothing else is charged (the accumulator is untouched, an acquire that
\* returns None charges nothing).
C11_ChargesByErrorKind ==
    [][\A t \in Threads, err \in ErrorKind :
          Acquire(t, err) =>
              LET cost == IF err = "TransientError"
                          THEN timeout_retry_cost ELSE retry_cost
              IN  /\ fractional_tokens' = fractional_tokens
                  /\ max_permits' = max_permits
                  /\ IF ret' = "Some"
                     THEN /\ semaphore' = semaphore - cost
                          /\ permits' = permits (+) SetToBag({cost})
                     ELSE /\ semaphore' = semaphore
                          /\ permits' = permits]_vars

\* a TransientError permit and a permit of another kind are held, and they
\* cost different amounts
C11_Witness ==
    /\ ret = "Some"
    /\ timeout_retry_cost # retry_cost
    /\ CopiesIn(timeout_retry_cost, permits) = 1
    /\ CopiesIn(retry_cost, permits) = 1
    /\ semaphore = max_permits - timeout_retry_cost - retry_cost

\* C12: acquire never waits for tokens: in every state a caller that is not
\* inside another call can take its acquire step, for every failure kind, and
\* that one step returns (a permit or None) and leaves the caller outside any
\* call, also when the bucket is empty and another caller is about to
\* replenish it.  (A successful acquire is followed only while fewer than
\* MaxHeld permits are held.)
C12_AcquireNeverWaits ==
    \A t \in Threads, err \in ErrorKind :
        (/\ pc[t] = "idle"
         /\ (semaphore < RetryCost(err) \/ BagCardinality(permits) < MaxHeld))
        => ENABLED (/\ Acquire(t, err)
                    /\ ret' \in {"Some", "None"}
                    /\ pc'[t] = "idle")

\* an acquire returned None on an empty bucket while another caller is
\* between the read and the add_permits of its add_tokens
C12_Witness ==
    /\ ret = "None"
    /\ semaphore = 0
    /\ retry_cost > 0
    /\ \E t \in Threads : pc[t] = "regenerate_add_permits" /\ tokens_to_add[t] = 1

\* C13: on a bucket built by unlimited(), no step of regenerate_a_token or
\* reward_success (nor any acquire or permit drop mixed with them) changes
\* the available count or the accumulator, and none panics.
C13_UnlimitedNoOps ==
    [][IsUnlimited =>
          /\ semaphore' = semaphore
          /\ fractional_tokens' = fractional_tokens
          /\ \A t \in Threads : pc'[t] # "panicked"]_vars

\* on an unlimited bucket a reward_success has returned, a
\* regenerate_a_token is at its add_permits, and permits were acquired
C13_Witness ==
    /\ IsUnlimited
    /\ nReward >= 1
    /\ \E t \in Threads : pc[t] = "regenerate_add_permits"
    /\ ret = "Some"
    /\ permits # EmptyBag

\* C14: the bucket build returns has, for each of capacity, retry_cost,
\* timeout_retry_cost and success_reward, the value that was set last, or,
\* where none was set, the default (500, 5, 10, 0.0); it starts full
\* (available = capacity) with the accumulator at 0.0.
C14_BuildUsesSetValuesOrDefaults ==
    built = "built" =>
        /\ max_permits = IF builder.capacity = None THEN 500
                                                    ELSE builder.capacity[1]
        /\ semaphore = max_permits
        /\ retry_cost = IF builder.retry_cost = None THEN 5
                                                     ELSE builder.retry_cost[1]
        /\ timeout_retry_cost =
               IF builder.timeout_retry_cost = None
               THEN 10 ELSE builder.timeout_retry_cost[1]
        /\ success_reward =
               IF builder.success_reward = None
               THEN F64Zero ELSE builder.success_reward[1]
        /\ fractional_tokens = F64Zero

\* a builder with capacity, timeout retry cost and reward set and the retry
\* cost left unset has been built
C14_Witness ==
    /\ built = "built"
    /\ builder.capacity = Some(100)
    /\ builder.retry_cost = None
    /\ builder.timeout_retry_cost = Some(20)
    /\ builder.success_reward = Some(F64_0_5)
    /\ semaphore = 100

\* the decimal text of the body sizes that are followed
DecimalText(n) ==
    CASE n = 0 -> "0" [] n = 1 -> "1" [] n = 2 -> "2" [] n = 12 -> "12"

\* C15: modify_before_transmit on a streaming body without an exact length
\* does not succeed and leaves the request as it was: the body is not
\* replaced, no header is added or changed, the signer stays in the bag.
\* The failure is the UnsizedRequestBody build error whenever the checksum
\* state and its algorithm are in the bag, which the two expects before the
\* size is looked at (lines 66-70) take for granted.
C15_UnsizedBodyFailsUntouched ==
    [][(/\ ModifyBeforeTransmit
        /\ SdkBodyBytes(body) = None
        /\ body.exact = None)
       => /\ result' # "Ok"
          /\ (cfg_checksum # None /\ cfg_checksum[1].checksum_algorithm # None)
                 => result' = "Err(UnsizedRequestBody)"
          /\ body' = body
          /\ headers' = headers
          /\ cfg_signer' = cfg_signer
          /\ phase' = "-"]_vars

\* a streaming body without an exact length was refused while the request
\* had headers
C15_Witness ==
    /\ result = "Err(UnsizedRequestBody)"
    /\ body = SdkBodyStreaming(HelloWorld, FALSE)
    /\ HeaderGetAll(headers, "content-encoding") = <<"gzip">>
    /\ cfg_signer = Some(DeferredSignerOf(1))

\* C16: when modify_before_transmit returns Ok on a streaming body of exact
\* size L, the request's body is the chunked transform around the original
\* body, x-amz-decoded-content-length is the one value L in decimal, and
\* Content-Encoding has the values it had, followed by aws-chunked.
C16_WrappedRequestHeaders ==
    [][(/\ ModifyBeforeTransmit
        /\ SdkBodyBytes(body) = None
        /\ body.exact # None
        /\ result' = "Ok")
       => /\ body'.kind = "aws_chunked"
          /\ body'.inner = body
          /\ body'.options.stream_length = Len(body.data)
          /\ HeaderGetAll(headers', "x-amz-decoded-content-length")
                 = <<DecimalText(Len(body.data))>>
          /\ HeaderGetAll(headers', "content-encoding")
                 = HeaderGetAll(headers, "content-encoding") \o <<"aws-chunked">>]_vars

\* a 12-byte streaming body was wrapped on a request that had two
\* content-encoding values and a stale decoded length
C16_Witness ==
    /\ result = "Ok"
    /\ body.kind = "aws_chunked"
    /\ body.inner = SdkBodyStreaming(HelloWorld, TRUE)
    /\ HeaderGetAll(headers, "content-encoding") = <<"gzip", "deflate", "aws-chunked">>
    /\ HeaderGetAll(headers, "x-amz-decoded-content-length") = <<"12">>

\* the payload bytes carried by the chunks of an output
RECURSIVE PayloadOf(_)
PayloadOf(out) ==
    IF out = <<>> THEN <<>>
    ELSE (IF Head(out).kind = "chunk" THEN Head(out).data ELSE <<>>)
         \o PayloadOf(Tail(out))

\* the order of the transform's phases; a drain that fails stops while it
\* awaits the trailer values
PhaseOrder ==
    {<<"-", "payload">>, <<"payload", "final_chunk">>,
     <<"final_chunk", "awaiting_trailer">>,
     <<"awaiting_trailer", "emitting_trailer">>,
     <<"emitting_trailer", "done">>, <<"awaiting_trailer", "failed">>}

\* C17: in every drain the transform's phases follow one another only in
\* the order payload chunks, final zero-length chunk, awaiting trailer
\* values, emitting trailer, done; the wait on the deferred value starts
\* only when every payload byte and then the zero-length chunk have been
\* emitted and no trailer field has, and a trailer field is emitted only
\* after that wait has returned the value, whenever the producer fulfilled.
C17_DeferredRequestedAtTrailer ==
    [][/\ phase' # phase => <<phase, phase'>> \in PhaseOrder
       /\ \A i \in 1 .. Len(consumer) :
              (consumer[i] # "waiting" /\ consumer'[i] = "waiting")
              => /\ i = BodySigner
                 /\ phase = "awaiting_trailer"
                 /\ PayloadOf(output) = InnerData
                 /\ output[Len(output)] = LastChunk
                 /\ TrailerFrames(output) = <<>>
       /\ TrailerFrames(output') # <<>>
              => /\ consumer'[BodySigner] = "returned"
                 /\ received'[BodySigner] # <<>>
                 /\ received'[BodySigner][1].ok]_vars

\* the producer fulfilled while payload chunks were still being emitted, and
\* the 3-byte body has been drained to the end in one-byte chunks
C17_Witness ==
    /\ phase = "done"
    /\ BodySigner > 0
    /\ fulfilled_in[BodySigner] = "payload"
    /\ PayloadOf(output) = <<"a", "b", "a">>
    /\ Len(output) = 7
    /\ Len(TrailerFrames(output)) = 2

\* C18: when the producer half of the installed body's pair was dropped
\* without fulfilling, the drain emits no trailer field and no final CRLF and
\* never reaches the trailer's emission or Done; the wait at the trailer
\* stage returns Abandoned and the drain fails with HandoffAbandoned.
C18_AbandonedFailsWithoutTrailer ==
    (BodySigner > 0 /\ slot[BodySigner].state = "Abandoned")
    => /\ phase \notin {"emitting_trailer", "done"}
       /\ drained # "Ok"
       /\ \A k \in 1 .. Len(output) : output[k].kind = "chunk"
       /\ consumer[BodySigner] = "returned"
              => /\ phase = "failed"
                 /\ drained = "HandoffAbandoned"
                 /\ received[BodySigner] = <<[ok |-> FALSE, value |-> "Abandoned"]>>
       /\ consumer[BodySigner] = "waiting" => ENABLED WaitReturns

\* the sender was dropped, the whole payload and the zero-length chunk were
\* emitted, and the drain failed at the trailer
C18_Witness ==
    /\ phase = "failed"
    /\ drained = "HandoffAbandoned"
    /\ producer[BodySigner] = "dropped"
    /\ PayloadOf(output) = <<"a", "b">>
    /\ output[Len(output)] = LastChunk

\* the drain is suspended in the wait on the installed body's slot
Suspended ==
    IF BodySigner > 0 THEN consumer[BodySigner] = "waiting" ELSE FALSE

\* the drain is suspended and the slot is in the given state
SuspendedOn(state) ==
    IF Suspended THEN slot[BodySigner].state = state ELSE FALSE

\* the wait has returned r
WaitReturned(r) ==
    IF BodySigner > 0 THEN received[BodySigner] = <<r>> ELSE FALSE

\* the wait has returned the value in the slot
ValueReturned ==
    IF BodySigner > 0
    THEN IF slot[BodySigner].state = "Fulfilled"
         THEN WaitReturned([ok |-> TRUE, value |-> slot[BodySigner].value[1]])
         ELSE FALSE
    ELSE FALSE

\* the drain has failed on the Abandoned the wait returned
FailedAbandoned ==
    IF drained = "HandoffAbandoned"
    THEN WaitReturned([ok |-> FALSE, value |-> "Abandoned"])
    ELSE FALSE

\* C19: with the transport polling and the producer stage scheduled on its
\* own, a wait on a fulfilled slot leads to the value being returned, a
\* wait on an abandoned slot leads to the drain failing with
\* HandoffAbandoned, and a drain suspended at the trailer boundary leads to
\* the drain being done or failed.
C19_WaitNeverHangs ==
    /\ SuspendedOn("Fulfilled") ~> ValueReturned
    /\ SuspendedOn("Abandoned") ~> FailedAbandoned
    /\ (IF Suspended THEN phase = "awaiting_trailer" ELSE FALSE)
           ~> (phase \in {"done", "failed"})

\* the drain is suspended at the trailer boundary on a slot that is still
\* empty, its producer handle still held
C19_Witness ==
    /\ Suspended
    /\ phase = "awaiting_trailer"
    /\ slot[BodySigner].state = "Empty"
    /\ producer[BodySigner] = "held"
    /\ output[Len(output)] = LastChunk

\* C20: a slot changes only from Empty to Fulfilled or from Empty to
\* Abandoned and then never again; the producer stores at most one value,
\* the consumer's wait returns at most once, and the value it returns is the
\* one the producer stored.
C20_SlotIsOneShot ==
    [][\A i \in 1 .. Len(slot) :
          /\ slot'[i] # slot[i]
                 => /\ slot[i] = [state |-> "Empty", value |-> None]
                    /\ slot'[i].state \in {"Fulfilled", "Abandoned"}
          /\ Len(fulfils'[i]) <= 1
          /\ Len(received'[i]) <= 1
          /\ (slot'[i].state = "Fulfilled")
                 <=> (Len(fulfils'[i]) = 1 /\ slot'[i].value = Some(fulfils'[i][1]))
          /\ (received'[i] # <<>> /\ received'[i][1].ok)
                 => fulfils'[i] = <<received'[i][1].value>>
          /\ (received'[i] # <<>> /\ ~received'[i][1].ok)
                 => (fulfils'[i] = <<>> /\ slot'[i].state = "Abandoned")]_vars

\* the producer stored sigB before the body was installed and the
\* consumer's wait returned it
C20_Witness ==
    /\ BodySigner > 0
    /\ slot[BodySigner] = [state |-> "Fulfilled", value |-> Some("sigB")]
    /\ fulfilled_in[BodySigner] = "-"
    /\ received[BodySigner] = <<[ok |-> TRUE, value |-> "sigB"]>>
    /\ producer[BodySigner] = "consumed"

\* C21: whatever the sizes of the chunks, the bytes of a drain that is done
\* decode, with a chunked-transfer-encoding parser, to exactly the payload
\* of the wrapped body followed by exactly the configured trailer fields
\* (the checksum of the payload, then the delivered signature), with no byte
\* left over; and these bytes are, chunk by chunk, the hex length, CRLF, the
\* data, CRLF, then 0 CRLF, then name:value CRLF per field, then CRLF.
C21_ChunkedRoundTrip ==
    phase = "done" =>
        /\ ChunkedDecode(Wire(output)) =
               [ok |-> TRUE,
                payload |-> InnerData,
                trailer |-> <<[name |-> "checksum",
                               value |-> ChecksumOf(InnerData)],
                              [name |-> "signature",
                               value |-> fulfils[BodySigner][1]]>>,
                rest |-> <<>>]
        /\ LET chunks == SelectSeq(output,
                                   LAMBDA f : f.kind = "chunk" /\ f.data # <<>>)
               tail == SubSeq(output, Len(chunks) + 1, Len(output))
           IN  /\ SubSeq(output, 1, Len(chunks)) = chunks
               /\ \A k \in 1 .. Len(chunks) :
                      WireFrame(chunks[k]) =
                          HexLength(Len(chunks[k].data)) \o <<"\r", "\n">>
                              \o chunks[k].data \o <<"\r", "\n">>
               /\ Wire(tail) =
                      <<"0", "\r", "\n",
                        "checksum", ":", ChecksumOf(InnerData), "\r", "\n",
                        "signature", ":", fulfils[BodySigner][1], "\r", "\n",
                        "\r", "\n">>

\* "Hello, world" was drained as one chunk of length c
C21_Witness ==
    /\ phase = "done"
    /\ InnerData = HelloWorld
    /\ Wire(output) =
           <<"c", "\r", "\n">> \o HelloWorld
               \o <<"\r", "\n", "0", "\r", "\n",
                    "checksum", ":", "sum(Hello, world)", "\r", "\n",
                    "signature", ":", "sigA", "\r", "\n", "\r", "\n">>

\* the metric ids the user agent carries after m/
MetricsIn(ua) ==
    IF \E i \in 1 .. Len(ua) : ua[i] = "m/"
    THEN LET m == CHOOSE i \in 1 .. Len(ua) : ua[i] = "m/"
         IN  {ua[k] : k \in m + 1 .. Len(ua)} \ {","}
    ELSE {}

\* C22: read_before_execution returns Ok in every case; it appends one
\* EndpointOverride feature, after the features already there, when an
\* endpoint URL is configured that does not contain ".amazonaws.com", and
\* leaves the features as they were when the URL contains it or none is
\* configured.  The captured request of a custom endpoint carries metric N
\* in x-amz-user-agent; a request with no endpoint URL configured carries
\* no m/N and no N.
C22_EndpointOverrideFeature ==
    [][/\ ReadBeforeExecution =>
              /\ override_result' = "Ok"
              /\ cfg_endpoint_url' = cfg_endpoint_url
              /\ cfg_features' =
                     IF cfg_endpoint_url = None THEN cfg_features
                     ELSE IF \E i \in 1 .. Len(cfg_endpoint_url[1]) - 1 :
                                 /\ cfg_endpoint_url[1][i] = ".amazonaws"
                                 /\ cfg_endpoint_url[1][i + 1] = ".com"
                     THEN cfg_features
                     ELSE cfg_features \o <<"EndpointOverride">>
       /\ user_agent' # None =>
              /\ cfg_endpoint_url \in
                     {Some(<<"http://", "localhost", ":9000">>),
                      Some(<<"https://", "custom", ".example", ".com">>),
                      Some(<<"https://", "amazonaws", ".com">>)}
                     => "N" \in MetricsIn(user_agent'[1])
              /\ cfg_endpoint_url = None
                     => /\ "N" \notin MetricsIn(user_agent'[1])
                        /\ ~Contains(user_agent'[1], <<"m/", "N">>)
              /\ Len(SelectSeq(user_agent'[1], LAMBDA e : e = "N")) <= 1]_vars

\* the request to http://localhost:9000 of a client with the transfer
\* manager's interceptor was captured with the metrics G and N
C22_Witness ==
    /\ cfg_endpoint_url = Some(<<"http://", "localhost", ":9000">>)
    /\ override_result = "Ok"
    /\ cfg_features = <<"S3Transfer", "EndpointOverride">>
    /\ user_agent = Some(<<"aws-sdk-rust/", "api/s3/", "m/", "G", ",", "N">>)

\* C23: one caller, every permit kept: after every acquire,
\* regenerate_a_token and reward_success call the available count is at
\* least 0 and at most max_permits, and no call has panicked.
C23_SequentialWithinCapacity ==
    /\ 0 <= semaphore
    /\ semaphore <= max_permits
    /\ pc[1] = "idle"

\* permits are held, an acquire found the bucket empty, and rewards have
\* since filled the bucket to its capacity, the last one cut at the cap
C23_Witness ==
    /\ ~IsUnlimited
    /\ permits # EmptyBag
    /\ ret = "None"
    /\ capped
    /\ semaphore = max_permits

\* C24: whenever add_tokens runs (called by regenerate_a_token, or by
\* reward_success with at least one whole token), the available count is
\* at most max_permits, and the call does not panic on the subtraction, in
\* every sequence of acquire, permit drops, regenerate_a_token and
\* reward_success.
C24_AddTokensNeverUnderflows ==
    [][(\/ CallRegenerateAToken
        \/ (/\ CallRewardSuccess
            /\ F64Floor(RewardAccumulate(fractional_tokens)) >= 1))
       => /\ semaphore <= max_permits
          /\ pc'[1] # "panicked"]_vars

\* C27: a reward_success call whose accumulator reaches n >= 1 whole
\* tokens takes all n out of the accumulator and adds only the
\* min(n, max_permits - available) that fit; the accumulator is below 1
\* after every call, so nothing is banked, and an acquire that makes room
\* afterwards changes neither the accumulator nor adds a token.
C27_CappedRewardsDiscarded ==
    [][/\ CallRewardSuccess =>
              LET added == IF F64Positive(success_reward)
                           THEN F64Add(fractional_tokens, success_reward)
                           ELSE fractional_tokens
                  n == F64Floor(added)
              IN  /\ fractional_tokens' =
                         IF n >= 1 THEN F64Sub(added, F64FromInt(n)) ELSE added
                  /\ F64InUnitInterval(fractional_tokens')
                  /\ (n >= 1 /\ semaphore <= max_permits)
                         => semaphore' = Min(semaphore + n, max_permits)
                  /\ n < 1 => semaphore' = semaphore
       /\ \A err \in ErrorKind :
              CallAcquire(err) =>
                  /\ fractional_tokens' = fractional_tokens
                  /\ semaphore' <= semaphore]_vars

\* capacity 10, reward 2.0: successes were rewarded while the bucket was
\* full, then an acquire took 5 tokens; nothing was ever credited, the
\* accumulator is 0 and 5 tokens are available
C27_Witness ==
    /\ max_permits = 10
    /\ success_reward = F64_2_0
    /\ nReward >= 2
    /\ capped
    /\ credited = 0
    /\ ret = "Some"
    /\ semaphore = 5
    /\ fractional_tokens = F64Zero

\* C25: read_before_signing makes one new pair on an empty slot and stores
\* its two halves in the bag; when modify_before_transmit wraps a streaming
\* body, the signer it gives the body is the one that was in the bag, and
\* the bag is left with the empty placeholder.  So whenever the body is
\* the chunked one, its signer belongs to a pair, the bag holds no signer
\* but the placeholder, a sender that is still in the bag is the one of the
\* body's pair, and every other pair's signer has been dropped: the body is
\* the signer's only owner.
C25_SignerMovedIntoBody ==
    [][/\ ReadBeforeSigning =>
              /\ Len(slot') = Len(slot) + 1
              /\ slot'[Len(slot')] = [state |-> "Empty", value |-> None]
              /\ cfg_signer' = Some([pair |-> Len(slot')])
              /\ cfg_sender' = Some(Len(slot'))
       /\ (ModifyBeforeTransmit /\ body'.kind = "aws_chunked") =>
              /\ body.kind = "streaming"
              /\ Some(body'.signer) = cfg_signer
              /\ cfg_sender' = cfg_sender
       /\ body'.kind = "aws_chunked" =>
              /\ body'.signer.pair \in 1 .. Len(slot')
              /\ cfg_signer' = Some([pair |-> 0])
              /\ cfg_sender' \in {None, Some(body'.signer.pair)}
              /\ consumer'[body'.signer.pair] # "dropped"
              /\ \A i \in 1 .. Len(slot') :
                     i # body'.signer.pair => consumer'[i] = "dropped"]_vars

\* read_before_signing ran twice, the body was wrapped with the second
\* pair's signer, and that pair's sender is still in the bag
C25_Witness ==
    /\ body.kind = "aws_chunked"
    /\ Len(slot) = 2
    /\ body.signer = [pair |-> 2]
    /\ cfg_sender = Some(2)
    /\ cfg_signer = Some([pair |-> 0])
    /\ consumer = <<"dropped", "held">>
    /\ producer = <<"dropped", "held">>

\* C26: on a body whose bytes are in memory modify_before_transmit returns
\* Ok and leaves the body, the headers and the whole config bag (signer,
\* sender, checksum state) as they were, whether or not the bag holds a
\* checksum state or an algorithm.
C26_InMemoryBodyUntouched ==
    [][(ModifyBeforeTransmit /\ body.kind = "bytes") =>
          /\ result' = "Ok"
          /\ body' = body
          /\ headers' = headers
          /\ cfg_signer' = cfg_signer
          /\ cfg_sender' = cfg_sender
          /\ cfg_checksum' = cfg_checksum
          /\ phase' = "-"]_vars

\* an in-memory body went through with no checksum state in the bag: the
\* headers are the ones the request had and the signer is still in the bag
C26_Witness ==
    /\ result = "Ok"
    /\ body = [kind |-> "bytes", data |-> HelloWorld, exact |-> Some(12)]
    /\ cfg_checksum = None
    /\ HeaderGetAll(headers, "content-encoding") = <<"gzip", "deflate">>
    /\ HeaderGetAll(headers, "x-amz-decoded-content-length") = <<"7">>
    /\ cfg_signer = Some([pair |-> 1])

\* C28: all clones of a bucket point to one Semaphore and one Mutex<f64>:
\* after every clone, acquire, regenerate_a_token and reward_success,
\* through whichever clone it was made, every clone observes the same
\* available count and the same accumulator, and a call through one clone
\* changes what every other clone observes by exactly what it changes for
\* the clone itself.
C28_ClonesShareOnePool ==
    [][/\ \A i, j \in 1 .. Len(clones') :
              /\ semaphores'[clones'[i].semaphore] = semaphores'[clones'[j].semaphore]
              /\ mutexes'[clones'[i].fractional_tokens]
                     = mutexes'[clones'[j].fractional_tokens]
       /\ \A h, k \in 1 .. Len(clones) :
              /\ \A err \in ErrorKind :
                     (/\ CloneAcquire(h, err)
                      /\ semaphores[clones[h].semaphore] >=
                             (IF err = "TransientError"
                              THEN clones[h].timeout_retry_cost
                              ELSE clones[h].retry_cost))
                     => semaphores'[clones'[k].semaphore] =
                            semaphores[clones[k].semaphore]
                                - (IF err = "TransientError"
                                   THEN clones[h].timeout_retry_cost
                                   ELSE clones[h].retry_cost)
              /\ (/\ CloneRegenerateAToken(h)
                  /\ semaphores[clones[h].semaphore] < clones[h].max_permits)
                     => semaphores'[clones'[k].semaphore] =
                            semaphores[clones[k].semaphore] + 1
              /\ CloneRewardSuccess(h)
                     => LET added == F64Add(mutexes[clones[k].fractional_tokens],
                                            clones[h].success_reward)
                        IN  (/\ F64Positive(clones[h].success_reward)
                             /\ F64Floor(added) < 1)
                            => mutexes'[clones'[k].fractional_tokens] = added
       /\ Len(semaphores') = 1
       /\ Len(mutexes') = 1]_vars

\* three clones of the capacity-3 bucket, a call made through each: two
\* tokens were taken, one came back, and half a token is in the accumulator,
\* for all of them
C28_Witness ==
    /\ Len(clones) = 3
    /\ acted = {1, 2, 3}
    /\ clones[1].max_permits = 3
    /\ \A h \in 1 .. 3 :
           /\ AvailableThrough(h) = 2
           /\ FractionalThrough(h) = F64_0_5

====
